---- MODULE Spec2Model ----
(***************************************************************************)
(* A model of impedance.py's circuit model objects (circuits.py) and of    *)
(* their JSON export / import (model_io.py).                               *)
(*                                                                         *)
(* Python values are records with a field py naming their Python type, so  *)
(* that None, strings, lists and arrays can be compared with each other.   *)
(* A circuit string is a sequence of one-character strings: the string     *)
(* methods of get_param_names act on characters.                           *)
(***************************************************************************)
EXTENDS Integers, Sequences, FiniteSets, TLC

VARIABLES
    model,          \* the user's circuit model object, None before construction
    circuit_model,  \* the object model_import returned last, None if none
    file,           \* the content of the JSON file at filepath
    plot_pc,        \* position inside BaseCircuit.plot: "idle" or "loop"
    plot_locals,    \* plot's locals params, confs, i while in the loop
    nfit,           \* number of calls of circuit_fit so far
    nplot,          \* number of times plot entered its confidence-band loop
    lastCall,       \* the last operation called: arguments, outcome, result,
                    \* and (before) the model object as the call found it
    tree            \* SpecNames only: the circuit expression being written

vars == <<model, circuit_model, file, plot_pc, plot_locals, nfit, nplot, lastCall, tree>>

----------------------------------------------------------------------------
(* Bounds of the model *)

\* fit calls that reach the Fitting Engine in one behaviour
MaxFits == 2
\* longest frequencies / impedance array passed to fit and predict
MaxSamples == 2
\* iterations of plot's confidence-band loop (N = 1000 in the code)
MaxBootstrap == 2
\* plot calls that enter the confidence-band loop in one behaviour
MaxPlots == 1
\* elements of a generated circuit expression (SpecNames)
MaxElems == 3

----------------------------------------------------------------------------
(* Python values *)

None == [py |-> "None"]
Str(s) == [py |-> "str", s |-> s]
\* a list (py = "list") or numpy array (py = "ndarray") of elements of type ty
List(ty, v) == [py |-> "list", ty |-> ty, v |-> v]
NdArray(ty, v) == [py |-> "ndarray", ty |-> ty, v |-> v]

\* isinstance(i, (float, int, np.int32, np.float64))
IsNumber(ty) == ty \in {"float", "int", "np.int32", "np.float64"}
\* isinstance(z, (complex, np.complex128))
IsComplex(ty) == ty \in {"complex", "np.complex128"}

\* the vector <<base + 1, ..., base + n>>: entries differ, so order is visible
Vec(base, n) == [i \in 1..n |-> base + i]

----------------------------------------------------------------------------
(* Strings as sequences of characters, and the str methods the code uses *)

RECURSIVE replace(_, _, _)
\* s.replace(old, new) for a one-character old
replace(s, old, new) ==
    IF s = <<>> THEN <<>>
    ELSE (IF Head(s) = old THEN new ELSE <<Head(s)>>)
         \o replace(Tail(s), old, new)

RECURSIVE split(_, _)
\* s.split(sep) for a one-character sep: empty pieces are kept
split(s, sep) ==
    IF \A i \in 1..Len(s) : s[i] # sep
    THEN <<s>>
    ELSE LET k == CHOOSE i \in 1..Len(s) :
                      s[i] = sep /\ \A j \in 1..(i - 1) : s[j] # sep
         IN  <<SubSeq(s, 1, k - 1)>> \o split(SubSeq(s, k + 1, Len(s)), sep)

get_param_names_keep_slash(circuit) ==
    LET names == replace(replace(replace(circuit, "p", <<>>), "(", <<>>), ")", <<>>)
    IN  split(replace(names, ",", <<"-">>), "-")

\* BaseCircuit.get_param_names
get_param_names(circuit) ==
    LET names == replace(replace(replace(circuit, "p", <<>>), "(", <<>>), ")", <<>>)
    IN  split(replace(replace(names, ",", <<"-">>), "/", <<"-">>), "-")

\* Element Library: parameters per element kind
Arity(kind) == CASE kind = "R" -> 1
                 [] kind = "C" -> 1
                 [] kind = "E" -> 2
                 [] kind = "W" -> 2
                 [] OTHER -> 0

ElementKinds == {"R", "C", "E", "W"}

RECURSIVE SumArity(_, _)
SumArity(circuit, i) ==
    IF i > Len(circuit) THEN 0
    ELSE (IF /\ circuit[i] \in ElementKinds
             /\ (i = 1 \/ circuit[i - 1] \in {"-", ",", "("})
          THEN Arity(circuit[i]) ELSE 0)
         + SumArity(circuit, i + 1)

\* fitting.calculateCircuitLength: the sum of the arities of the elements of
\* the expression; an element starts the string or follows '-', ',' or '('
calculateCircuitLength(circuit) == SumArity(circuit, 1)

----------------------------------------------------------------------------
(* Circuit expressions by their grammar (SpecNames) *)

Digits == <<"0", "1", "2", "3", "4", "5", "6", "7", "8", "9">>
Digit(i) == Digits[i + 1]

\* an element of kind k and index i; kinds of arity 2 have two '/'-joined
\* sub-parameters k_i/k_(i+1), as W_1/W_2 in the Randles circuit
Element(k, i) == [t |-> "element", k |-> k, i |-> i]
SeriesNode(ch) == [t |-> "series", ch |-> ch]
ParallelNode(ch) == [t |-> "parallel", ch |-> ch]

RECURSIVE CountElems(_)
CountElems(n) ==
    IF n.t = "element" THEN 1
    ELSE LET RECURSIVE sum(_)
             sum(i) == IF i > Len(n.ch) THEN 0 ELSE CountElems(n.ch[i]) + sum(i + 1)
         IN  sum(1)

\* the name tokens of an element, in order
Tokens(e) ==
    IF Arity(e.k) = 1 THEN << <<e.k, "_", Digit(e.i)>> >>
    ELSE << <<e.k, "_", Digit(e.i)>>, <<e.k, "_", Digit(e.i + 1)>> >>

RECURSIVE Render(_)
\* the text of an expression: series joined by '-', parallel as p(x,y,...)
Render(n) ==
    IF n.t = "element"
    THEN (IF Arity(n.k) = 1 THEN Tokens(n)[1]
          ELSE Tokens(n)[1] \o <<"/">> \o Tokens(n)[2])
    ELSE LET sep == IF n.t = "series" THEN "-" ELSE ","
             RECURSIVE join(_)
             join(i) == IF i = Len(n.ch) THEN Render(n.ch[i])
                        ELSE Render(n.ch[i]) \o <<sep>> \o join(i + 1)
         IN  IF n.t = "series" THEN join(1)
             ELSE <<"p", "(">> \o join(1) \o <<")">>

RECURSIVE Leaves(_)
\* the name tokens of an expression, left to right
Leaves(n) ==
    IF n.t = "element" THEN Tokens(n)
    ELSE LET RECURSIVE cat(_)
             cat(i) == IF i > Len(n.ch) THEN <<>> ELSE Leaves(n.ch[i]) \o cat(i + 1)
         IN  cat(1)

NewElements == {Element(k, CountElems(tree)) : k \in ElementKinds}

InitNames ==
    /\ tree \in {Element(k, 0) : k \in ElementKinds}
    /\ model = None /\ circuit_model = None /\ file = None
    /\ plot_pc = "idle" /\ plot_locals = None /\ nfit = 0 /\ nplot = 0
    /\ lastCall = [op |-> "start"]

others == <<model, circuit_model, file, plot_pc, plot_locals, nfit, nplot, lastCall>>

\* x-e: one more element in series
AddSeries ==
    /\ CountElems(tree) < MaxElems
    /\ \E e \in NewElements :
          tree' = IF tree.t = "series" THEN SeriesNode(Append(tree.ch, e))
                  ELSE SeriesNode(<<tree, e>>)
    /\ UNCHANGED others

\* p(x,e): the expression so far becomes the first branch of a parallel group
WrapParallel ==
    /\ CountElems(tree) < MaxElems
    /\ \E e \in NewElements : tree' = ParallelNode(<<tree, e>>)
    /\ UNCHANGED others

\* e-x: a series that ends with the expression so far
PrependSeries ==
    /\ CountElems(tree) < MaxElems
    /\ \E e \in NewElements :
          tree' = IF tree.t = "series" THEN SeriesNode(<<e>> \o tree.ch)
                  ELSE SeriesNode(<<e, tree>>)
    /\ UNCHANGED others

\* p(x,y,e): one more branch of the parallel group
AddBranch ==
    /\ CountElems(tree) < MaxElems
    /\ tree.t = "parallel"
    /\ \E e \in NewElements : tree' = ParallelNode(Append(tree.ch, e))
    /\ UNCHANGED others

NextNames == AddSeries \/ WrapParallel \/ PrependSeries \/ AddBranch

SpecNames == InitNames /\ [][NextNames]_vars

----------------------------------------------------------------------------
(* Construction: BaseCircuit, Randles, CustomCircuit *)

Raise(exc) == [py |-> "raise", exc |-> exc]
Raised(x) == x.py = "raise"

\* 'R_0-p(R_1,C_1)-W_1/W_2'
RandlesCircuit ==
    Str(<<"R", "_", "0", "-", "p", "(", "R", "_", "1", ",", "C", "_", "1", ")",
      "-", "W", "_", "1", "/", "W", "_", "2">>)
\* 'R_0-p(R_1,E_1/E_2)-W_1/W_2'
RandlesCPECircuit ==
    Str(<<"R", "_", "0", "-", "p", "(", "R", "_", "1", ",", "E", "_", "1", "/",
      "E", "_", "2", ")", "-", "W", "_", "1", "/", "W", "_", "2">>)
\* the circuit string given to CustomCircuit: 'p(R_0,C_1)-W_1/W_2'
CustomCircuits ==
    { Str(<<"p", "(", "R", "_", "0", ",", "C", "_", "1", ")", "-",
            "W", "_", "1", "/", "W", "_", "2">>) }

\* bounds: None, or a (lower, upper) pair of n values each
Bounds(n) == [py |-> "bounds", n |-> n]

\* the keyword arguments tried on a circuit of n parameters: the initial
\* guess is missing, of another length, of strings, or as it must be; the
\* bounds are missing, of n pairs, or of another number of pairs
ConstructorArgs(n) ==
    {[initial_guess |-> g, bounds |-> None] :
        g \in {None, List("float", Vec(0, n - 1)), List("float", Vec(0, n + 1)),
               List("str", Vec(0, n)), List("float", Vec(0, n)),
               List("np.int32", Vec(0, n))}}
    \cup {[initial_guess |-> List("float", Vec(0, n)), bounds |-> Bounds(k)] :
             k \in {n - 1, n}}
Names == {None, Str("cell")}

\* BaseCircuit.__init__: the object, or the exception raised
BaseCircuit(initial_guess, name, algorithm, bounds) ==
    IF /\ initial_guess # None
       /\ initial_guess.v # <<>>
       /\ ~IsNumber(initial_guess.ty)
    THEN Raise("AssertionError")
    ELSE [py |-> "BaseCircuit", circuit |-> None,
          initial_guess |-> initial_guess, name |-> name,
          algorithm |-> algorithm, bounds |-> bounds,
          parameters_ |-> None, conf_ |-> None]

CheckGuessLength_none(self) ==
    IF self.initial_guess = None THEN Raise("TypeError") ELSE self

\* the check both subclasses end with: len(self.initial_guess) == circuit_length
CheckGuessLength(self) ==
    IF self.initial_guess = None THEN Raise("TypeError")
    ELSE IF Len(self.initial_guess.v) # calculateCircuitLength(self.circuit.s)
    THEN Raise("AssertionError")
    ELSE self

\* Randles.__init__
Randles(CPE, initial_guess, name, algorithm, bounds) ==
    LET base == BaseCircuit(initial_guess, name, algorithm, bounds)
    IN  IF Raised(base) THEN base
        ELSE CheckGuessLength(
               [base EXCEPT !.py = "Randles",
                            !.name = IF CPE THEN Str("Randles w/ CPE")
                                     ELSE Str("Randles"),
                            !.circuit = IF CPE THEN RandlesCPECircuit
                                        ELSE RandlesCircuit])

\* CustomCircuit.__init__; calculateCircuitLength(None) raises
CustomCircuit(circuit, initial_guess, name, algorithm, bounds) ==
    LET base == BaseCircuit(initial_guess, name, algorithm, bounds)
    IN  IF Raised(base) THEN base
        ELSE IF circuit = None THEN Raise("AttributeError")
        ELSE CheckGuessLength([base EXCEPT !.py = "CustomCircuit",
                                           !.circuit = circuit])

----------------------------------------------------------------------------
(* fit and predict *)

\* a frequencies or impedance argument: its Python type and, element by
\* element, the types of its values (an object array may mix them)
Samples(py, elems) == [py |-> py, elems |-> elems]
\* k values of type ty, and the same with another type in the last place
AllOf(ty, k) == [i \in 1..k |-> ty]
LastOf(ty, other, k) == [i \in 1..k |-> IF i = k THEN other ELSE ty]
\* arrays of up to MaxSamples values (empty ones too), object arrays whose
\* last value is of another type, and a list
FrequencyArgs ==
    {Samples("ndarray", AllOf("np.float64", k)) : k \in 0..MaxSamples}
    \cup {Samples("ndarray", LastOf("float", "str", k)) : k \in 1..MaxSamples}
    \cup {Samples("list", <<"float">>)}
ImpedanceArgs ==
    {Samples("ndarray", AllOf("np.complex128", k)) : k \in 0..MaxSamples}
    \cup {Samples("ndarray", LastOf("complex", "float", k)) : k \in 1..MaxSamples}
    \cup {Samples("list", <<"complex">>)}

\* the checks fit starts with: "ok", or the exception raised
fit_validate(frequencies, impedance) ==
    IF frequencies.py # "ndarray" THEN "AssertionError"
    ELSE IF frequencies.elems = <<>> THEN "IndexError"
    ELSE IF ~IsNumber(frequencies.elems[1]) THEN "AssertionError"
    ELSE IF impedance.py # "ndarray" THEN "AssertionError"
    ELSE IF impedance.elems = <<>> THEN "IndexError"
    ELSE IF ~IsComplex(impedance.elems[1]) THEN "AssertionError"
    ELSE IF Len(frequencies.elems) # Len(impedance.elems) THEN "AssertionError"
    ELSE "ok"

\* the input a fit is meant to accept: non-empty arrays of equal length, of
\* real frequencies and complex impedances
ValidSamples(frequencies, impedance) ==
    /\ frequencies.py = "ndarray" /\ impedance.py = "ndarray"
    /\ frequencies.elems # <<>>
    /\ Len(frequencies.elems) = Len(impedance.elems)
    /\ \A i \in 1..Len(frequencies.elems) : IsNumber(frequencies.elems[i])
    /\ \A i \in 1..Len(impedance.elems) : IsComplex(impedance.elems[i])

\* fitting.circuit_fit, call number k: what it may return or raise.  The
\* solver may fail on any input; it cannot work on values that are not
\* numbers or on bounds that do not match the parameters.  The values of
\* call k are 10k+i (parameters) and 100+10k+i (confidence).
circuit_fit(frequencies, impedance, circuit, initial_guess, algorithm, bounds, k) ==
    LET n == Len(initial_guess.v)
        parameters == NdArray("np.float64", Vec(10 * k, n))
        conf == NdArray("np.float64", Vec(100 + 10 * k, n))
    IN  IF \/ ~ValidSamples(frequencies, impedance)
           \/ (bounds # None /\ bounds.n # n)
        THEN {Raise("FitError")}
        ELSE {Raise("FitError"),
              [py |-> "tuple", parameters |-> parameters, conf |-> conf],
              [py |-> "tuple", parameters |-> parameters, conf |-> None]}

fit_store_before_call(self, result) ==
    IF Raised(result) THEN [self EXCEPT !.parameters_ = None]
    ELSE [self EXCEPT !.parameters_ = result.parameters,
                      !.conf_ = IF result.conf # None THEN result.conf ELSE @]

\* what fit does with circuit_fit's result: a raise leaves self as it is
fit_store(self, result) ==
    IF Raised(result) THEN self
    ELSE [self EXCEPT !.parameters_ = result.parameters,
                      !.conf_ = IF result.conf # None THEN result.conf ELSE @]

\* BaseCircuit._is_fit
_is_fit(self) == self.parameters_ # None

\* ndarray.tolist(): a list of Python floats
tolist(a) == List("float", a.v)

\* fitting.computeCircuit: the impedance is not modelled, only whether the
\* evaluation returns or raises (a degenerate circuit evaluation)
computeCircuit == {"ok", "raise"}

predict_params_ignore_flag(self, use_initial) ==
    IF _is_fit(self) THEN tolist(self.parameters_) ELSE self.initial_guess

\* predict: the parameters handed to computeCircuit
predict_params(self, use_initial) ==
    IF _is_fit(self) /\ ~use_initial
    THEN tolist(self.parameters_)
    ELSE self.initial_guess

\* the checks predict starts with
predict_validate(frequencies) ==
    IF frequencies.py # "ndarray" THEN "AssertionError"
    ELSE IF frequencies.elems = <<>> THEN "IndexError"
    ELSE IF ~IsNumber(frequencies.elems[1]) THEN "AssertionError"
    ELSE "ok"

----------------------------------------------------------------------------
(* plot: the confidence band *)

\* plot's arguments f_data: None, or an array as given to fit
PlotArgs == {None} \cup FrequencyArgs

\* np.log10(min(f_data)) needs numbers
CanRange(f_data) ==
    /\ f_data # None
    /\ f_data.elems # <<>>
    /\ \A i \in 1..Len(f_data.elems) : IsNumber(f_data.elems[i])

\* np.random.uniform(-2, 2): the sign of the draw is what the model keeps
Noise == {-1, 1}

\* params + confs*np.random.uniform(-2, 2, size=n)
plot_perturb(params, confs, d) ==
    NdArray("np.float64", [i \in 1..Len(params.v) |-> params.v[i] + d * confs.v[i]])

\* self.parameters_ = params, after the loop
plot_restore(self, params) == [self EXCEPT !.parameters_ = params]

----------------------------------------------------------------------------
(* model_io: model_export and model_import *)

\* what json.dump writes for a value of Python type ty, and json.load reads
\* back: a float or an int; np.int32 is not JSON serializable
JsonType(ty) == CASE ty \in {"float", "np.float64"} -> "float"
                  [] ty = "int" -> "int"
                  [] OTHER -> "TypeError"

\* [(name, vector[index]) for index, name in enumerate(model_param_names)]
Pairs(names, vector) ==
    [i \in 1..Len(names) |->
        [name |-> names[i], value |-> vector.v[i], ty |-> JsonType(vector.ty)]]

\* model_export: the outcome and the file it leaves.  The record written
\* also keeps, as its field of, the model it was written from.
model_export(self, old) ==
    IF self.py = "BaseCircuit"
    THEN [outcome |-> "AttributeError", file |-> old]
    ELSE LET model_param_names == get_param_names(self.circuit.s)
             n == Len(model_param_names)
         IN  IF self.initial_guess = None
             THEN [outcome |-> "TypeError", file |-> old]
             ELSE IF Len(self.initial_guess.v) < n
             THEN [outcome |-> "IndexError", file |-> old]
             ELSE IF self.parameters_ = None
             THEN [outcome |-> "TypeError", file |-> old]
             ELSE IF Len(self.parameters_.v) < n
             THEN [outcome |-> "IndexError", file |-> old]
             ELSE IF self.conf_ = None
             THEN [outcome |-> "TypeError", file |-> old]
             ELSE IF Len(self.conf_.v) < n
             THEN [outcome |-> "IndexError", file |-> old]
             ELSE IF "TypeError" \in {JsonType(self.initial_guess.ty),
                                      JsonType(self.parameters_.ty),
                                      JsonType(self.conf_.ty)}
             THEN \* json.dump raises after open(filepath, 'w')
                  [outcome |-> "TypeError", file |-> [py |-> "partial"]]
             ELSE [outcome |-> "ok",
                   file |-> [py |-> "json",
                             Name |-> IF self.name \in {None, Str("")}
                                      THEN Str("None") ELSE self.name,
                             CircuitString |-> self.circuit,
                             InitialGuess |-> Pairs(model_param_names, self.initial_guess),
                             Parameters |-> Pairs(model_param_names, self.parameters_),
                             Confidence |-> Pairs(model_param_names, self.conf_),
                             of |-> self]]

\* [item[1] for item in pairs], as the list json.load gives
Values(pairs) ==
    List(IF pairs = <<>> THEN "float" ELSE pairs[1].ty,
         [i \in 1..Len(pairs) |-> pairs[i].value])

\* np.array(list)
np_array(list) ==
    NdArray(IF list.ty = "int" THEN "np.int64" ELSE "np.float64", list.v)

\* what can follow the '%' of the print at the end of model_import without a
\* TypeError: the format string has no conversion, so only a mapping can
PathTypes == {"str", "bytes"}
FormatsWithoutConversion(path_type) == path_type = "bytes"

\* model_import: the object returned, or the exception raised
model_import(json_data, path_type, as_initial_guess) ==
    IF json_data = None THEN Raise("FileNotFoundError")
    ELSE IF json_data.py # "json" THEN Raise("JSONDecodeError")
    ELSE
    LET circuit_name == IF json_data.Name = Str("None") THEN None ELSE json_data.Name
        circuit_string == json_data.CircuitString
        circuit_params == Values(json_data.Parameters)
        circuit_initial_guess == Values(json_data.InitialGuess)
        \* circuit_conf_list = json_data["Initial Guess"]
        circuit_conf == Values(json_data.InitialGuess)
        made == IF as_initial_guess
                THEN CustomCircuit(circuit_string, circuit_params, circuit_name,
                                   "leastsq", None)
                ELSE CustomCircuit(circuit_string, circuit_initial_guess,
                                   circuit_name, "leastsq", None)
    IN  IF Raised(made) THEN made
        \* print("Imported model from %s with" + "..." % filepath)
        ELSE IF ~FormatsWithoutConversion(path_type) THEN Raise("TypeError")
        ELSE IF as_initial_guess THEN made
        ELSE [made EXCEPT !.parameters_ = np_array(circuit_params),
                          !.conf_ = np_array(circuit_conf)]

----------------------------------------------------------------------------
(* The operations on the model object *)

Init ==
    /\ model = None /\ circuit_model = None /\ file = None
    /\ plot_pc = "idle" /\ plot_locals = None /\ nfit = 0 /\ nplot = 0
    /\ lastCall = [op |-> "start"]
    /\ tree = Element("R", 0)

\* model = CustomCircuit(circuit, initial_guess=..., name=..., bounds=...)
NewCustomCircuit ==
    /\ model = None /\ lastCall.op = "start"
    /\ \E circuit \in CustomCircuits \cup {None}, name \in Names,
          kwargs \in ConstructorArgs(4) :
          LET initial_guess == kwargs.initial_guess
              bounds == kwargs.bounds
              made == CustomCircuit(circuit, initial_guess, name, "leastsq", bounds)
          IN  /\ model' = IF Raised(made) THEN None ELSE made
              /\ lastCall' = [op |-> "construct", outcome |-> made.py,
                              circuit |-> circuit,
                              initial_guess |-> initial_guess, bounds |-> bounds]
    /\ UNCHANGED <<circuit_model, file, plot_pc, plot_locals, nfit, nplot, tree>>

\* model = Randles(CPE, initial_guess=..., bounds=...)
NewRandles ==
    /\ model = None /\ lastCall.op = "start"
    /\ \E CPE \in BOOLEAN, kwargs \in ConstructorArgs(5) \cup ConstructorArgs(6) :
          LET initial_guess == kwargs.initial_guess
              bounds == kwargs.bounds
              made == Randles(CPE, initial_guess, None, "leastsq", bounds)
          IN  /\ model' = IF Raised(made) THEN None ELSE made
              /\ lastCall' = [op |-> "construct", outcome |-> made.py,
                              circuit |-> IF CPE THEN RandlesCPECircuit
                                          ELSE RandlesCircuit,
                              initial_guess |-> initial_guess, bounds |-> bounds]
    /\ UNCHANGED <<circuit_model, file, plot_pc, plot_locals, nfit, nplot, tree>>

\* model.fit(frequencies, impedance)
Fit ==
    /\ model # None /\ plot_pc = "idle"
    /\ \E frequencies \in FrequencyArgs, impedance \in ImpedanceArgs :
          LET checked == fit_validate(frequencies, impedance)
          IN  IF checked # "ok"
              THEN /\ lastCall' = [op |-> "fit", outcome |-> checked,
                                   engine |-> None, result |-> None,
                                   before |-> model]
                   /\ UNCHANGED <<model, nfit>>
              ELSE IF model.initial_guess = None
              THEN /\ lastCall' = [op |-> "fit", outcome |-> "ValueError",
                                   engine |-> None, result |-> None,
                                   before |-> model]
                   /\ UNCHANGED <<model, nfit>>
              ELSE IF model.py = "BaseCircuit"
              THEN \* self.circuit: a BaseCircuit has no such attribute
                   /\ lastCall' = [op |-> "fit", outcome |-> "AttributeError",
                                   engine |-> None, result |-> None,
                                   before |-> model]
                   /\ UNCHANGED <<model, nfit>>
              ELSE /\ nfit < MaxFits
                   /\ nfit' = nfit + 1
                   /\ \E result \in circuit_fit(frequencies, impedance,
                                                model.circuit, model.initial_guess,
                                                model.algorithm, model.bounds,
                                                nfit + 1) :
                         /\ model' = fit_store(model, result)
                         /\ lastCall' =
                              [op |-> "fit",
                               outcome |-> IF Raised(result) THEN "FitError"
                                           ELSE "ok",
                               engine |-> [frequencies |-> frequencies,
                                           impedance |-> impedance,
                                           bounds |-> model.bounds],
                               result |-> IF Raised(result) THEN None ELSE result,
                               before |-> model]
    /\ UNCHANGED <<circuit_model, file, plot_pc, plot_locals, nplot, tree>>

\* model.predict(frequencies, use_initial)
Predict ==
    /\ model # None /\ plot_pc = "idle"
    /\ \E frequencies \in FrequencyArgs, use_initial \in BOOLEAN,
          computed \in computeCircuit :
          LET checked == predict_validate(frequencies)
          IN  lastCall' =
                IF checked # "ok"
                THEN [op |-> "predict", outcome |-> checked,
                      use_initial |-> use_initial, passed |-> None]
                ELSE IF model.py = "BaseCircuit"
                THEN [op |-> "predict", outcome |-> "AttributeError",
                      use_initial |-> use_initial, passed |-> None]
                ELSE [op |-> "predict",
                      outcome |-> IF computed = "ok" THEN "ok" ELSE "EvalError",
                      use_initial |-> use_initial,
                      passed |-> predict_params(model, use_initial)]
    /\ UNCHANGED <<model, circuit_model, file, plot_pc, plot_locals, nfit, nplot, tree>>

\* model = BaseCircuit(initial_guess=...): an object with no circuit
NewBaseCircuit ==
    /\ model = None /\ lastCall.op = "start"
    /\ \E initial_guess \in {None, List("float", Vec(0, 4))} :
          LET made == BaseCircuit(initial_guess, None, "leastsq", None)
          IN  /\ model' = made
              /\ lastCall' = [op |-> "construct", outcome |-> made.py,
                              circuit |-> None,
                              initial_guess |-> initial_guess, bounds |-> None]
    /\ UNCHANGED <<circuit_model, file, plot_pc, plot_locals, nfit, nplot, tree>>

\* model.plot(f_data, Z_data, CI), up to the confidence-band loop
PlotBegin ==
    /\ model # None /\ plot_pc = "idle"
    /\ \E f_data \in PlotArgs, CI \in BOOLEAN, computed \in computeCircuit :
          LET checked == IF f_data = None THEN "ok" ELSE predict_validate(f_data)
              outcome ==
                  IF ~_is_fit(model) THEN "ok"
                  ELSE IF checked # "ok" THEN checked
                  ELSE IF computed # "ok" THEN "EvalError"
                  ELSE IF ~CI THEN "ok"
                  ELSE IF ~CanRange(f_data) THEN "TypeError"
                  ELSE "loop"
          IN  /\ outcome = "loop" => nplot < MaxPlots
              /\ nplot' = IF outcome = "loop" THEN nplot + 1 ELSE nplot
              /\ plot_pc' = IF outcome = "loop" THEN "loop" ELSE "idle"
              /\ plot_locals' = IF outcome = "loop"
                                THEN [params |-> model.parameters_,
                                      confs |-> model.conf_, i |-> 0]
                                ELSE None
              /\ lastCall' = [op |-> "plot", outcome |-> outcome, before |-> model]
    /\ UNCHANGED <<model, circuit_model, file, nfit, tree>>

\* one iteration of the loop: perturb self.parameters_, then self.predict
PlotIterate ==
    /\ plot_pc = "loop" /\ plot_locals.i < MaxBootstrap
    /\ IF plot_locals.confs = None
       THEN \* params + None*array raises before the assignment
            /\ plot_pc' = "idle" /\ plot_locals' = None
            /\ lastCall' = [lastCall EXCEPT !.outcome = "TypeError"]
            /\ UNCHANGED model
       ELSE \E d \in Noise, computed \in computeCircuit :
            /\ model' = [model EXCEPT !.parameters_ =
                            plot_perturb(plot_locals.params, plot_locals.confs, d)]
            /\ IF computed = "ok"
               THEN /\ plot_locals' = [plot_locals EXCEPT !.i = @ + 1]
                    /\ UNCHANGED <<plot_pc, lastCall>>
               ELSE /\ plot_pc' = "idle" /\ plot_locals' = None
                    /\ lastCall' = [lastCall EXCEPT !.outcome = "EvalError"]
    /\ UNCHANGED <<circuit_model, file, nfit, nplot, tree>>

\* after the loop: self.parameters_ = params, and the band is drawn
PlotEnd ==
    /\ plot_pc = "loop" /\ plot_locals.i = MaxBootstrap
    /\ model' = plot_restore(model, plot_locals.params)
    /\ plot_pc' = "idle" /\ plot_locals' = None
    /\ lastCall' = [lastCall EXCEPT !.outcome = "ok"]
    /\ UNCHANGED <<circuit_model, file, nfit, nplot, tree>>

\* model_export(model, filepath)
Export ==
    /\ model # None /\ plot_pc = "idle"
    /\ LET done == model_export(model, file)
       IN  /\ file' = done.file
           /\ lastCall' = [op |-> "export", outcome |-> done.outcome]
    /\ UNCHANGED <<model, circuit_model, plot_pc, plot_locals, nfit, nplot, tree>>

\* circuit_model = model_import(filepath, as_initial_guess)
Import ==
    /\ model # None /\ plot_pc = "idle"
    /\ \E path_type \in PathTypes, as_initial_guess \in BOOLEAN :
          LET got == model_import(file, path_type, as_initial_guess)
          IN  /\ circuit_model' = IF Raised(got) THEN circuit_model ELSE got
              /\ lastCall' = [op |-> "import",
                              outcome |-> IF Raised(got) THEN got.exc ELSE "ok",
                              as_initial_guess |-> as_initial_guess,
                              path_type |-> path_type, json_data |-> file]
    /\ UNCHANGED <<model, file, plot_pc, plot_locals, nfit, nplot, tree>>

\* the program goes on with the imported object: model = circuit_model
UseImported ==
    /\ circuit_model # None /\ plot_pc = "idle"
    /\ model' = circuit_model
    /\ circuit_model' = None
    /\ lastCall' = [op |-> "use"]
    /\ UNCHANGED <<file, plot_pc, plot_locals, nfit, nplot, tree>>

\* a program that constructs, fits, predicts and plots
Next ==
    \/ NewCustomCircuit \/ NewRandles \/ NewBaseCircuit
    \/ Fit \/ Predict
    \/ PlotBegin \/ PlotIterate \/ PlotEnd

\* a program that constructs, fits, exports, imports and goes on with the
\* imported object
NextIO ==
    \/ NewCustomCircuit \/ NewRandles \/ NewBaseCircuit
    \/ Fit
    \/ Export \/ Import \/ UseImported

SpecIO == Init /\ [][NextIO]_vars

Spec == Init /\ [][Next]_vars

----------------------------------------------------------------------------
(* Claims about fit, predict and plot (Spec) *)

\* C1: the stored Fit Result is never partially updated: after a fit call
\* that succeeds, parameters_ and conf_ are both the ones this call's
\* circuit_fit returned; when it returned no confidence vector, no confidence
\* vector of an earlier fit stays next to the new parameters.
C1_FitResultWhole ==
    (lastCall.op = "fit" /\ lastCall.outcome = "ok")
    => /\ model.parameters_ = lastCall.result.parameters
       /\ model.conf_ = lastCall.result.conf

\* C3: predict evaluates the circuit with the fitted parameters exactly when
\* a fit exists and use_initial is false, and with the initial guess otherwise.
C3_PredictParameters ==
    (lastCall.op = "predict" /\ lastCall.passed # None)
    => lastCall.passed =
          IF model.parameters_ # None /\ ~lastCall.use_initial
          THEN List("float", model.parameters_.v)
          ELSE model.initial_guess

\* a fitted model predicted with use_initial=True, from its initial guess
C3_Witness ==
    /\ lastCall.op = "predict" /\ lastCall.outcome = "ok"
    /\ lastCall.use_initial
    /\ model.parameters_ # None
    /\ lastCall.passed = model.initial_guess

\* a model predicted before any fit, without use_initial
C3_WitnessUnfitted ==
    /\ lastCall.op = "predict" /\ lastCall.outcome = "ok"
    /\ ~lastCall.use_initial
    /\ model.parameters_ = None
    /\ lastCall.passed = model.initial_guess

\* C4: fit calls the Fitting Engine only on valid input: non-empty
\* frequencies and impedance of equal length, every frequency a real number,
\* every impedance value complex, and an initial guess present.
C4_EngineOnlyOnValidInput ==
    (lastCall.op = "fit" /\ lastCall.engine # None)
    => /\ ValidSamples(lastCall.engine.frequencies, lastCall.engine.impedance)
       /\ lastCall.before.initial_guess # None

\* C5: a fit call that fails (input validation, missing initial guess, or a
\* failure raised by the Fitting Engine) leaves the model as it was, so a
\* fitted model still predicts from its previous fitted parameters.
C5_FailedFitKeepsState ==
    (lastCall.op = "fit" /\ lastCall.outcome # "ok")
    => /\ model = lastCall.before
       /\ predict_params(model, FALSE) = predict_params(lastCall.before, FALSE)

\* the Fitting Engine raised on the re-fit of a fitted model
C5_Witness ==
    /\ lastCall.op = "fit" /\ lastCall.outcome = "FitError"
    /\ model.parameters_ # None /\ model.conf_ # None

\* C7: a model whose bounds do not have one lower/upper pair per circuit
\* parameter is rejected at construction, so no such model reaches fit: the
\* bounds fit hands to the Fitting Engine always match the parameters.
C7_BoundsCheckedAtConstruction ==
    (lastCall.op = "fit" /\ lastCall.engine # None)
    => \/ lastCall.engine.bounds = None
       \/ lastCall.engine.bounds.n = calculateCircuitLength(model.circuit.s)

\* C8: plot never changes the stored fitted parameters: in every state during
\* or after a plot call (also when a predict inside the confidence-band loop
\* raised), parameters_ is the vector the call found, stored by the last fit.
C8_PlotKeepsParameters ==
    lastCall.op = "plot" => model.parameters_ = lastCall.before.parameters_

\* C8, after the call only: the perturbed vector stays when the loop is left
\* by an exception
C8_AfterPlot ==
    (lastCall.op = "plot" /\ plot_pc = "idle")
    => model.parameters_ = lastCall.before.parameters_

----------------------------------------------------------------------------
(* Claims about construction, export and import (SpecIO) *)

\* the model a JSON record was exported from
ExportedModel == lastCall.json_data.of

\* C2: model_export followed by model_import (as_initial_guess=False)
\* gives an equivalent model: the same circuit expression, name, initial
\* guess, fitted parameters and confidence vector, each in the same order.
C2_RoundTrip ==
    (/\ lastCall.op = "import" /\ lastCall.outcome = "ok"
     /\ ~lastCall.as_initial_guess)
    => /\ circuit_model.circuit = ExportedModel.circuit
       /\ circuit_model.name = ExportedModel.name
       /\ circuit_model.initial_guess.v = ExportedModel.initial_guess.v
       /\ circuit_model.parameters_.v = ExportedModel.parameters_.v
       /\ circuit_model.conf_.v = ExportedModel.conf_.v

\* C6: every constructed model (CustomCircuit, Randles, and any model that
\* model_import returned) has an initial guess as long as its circuit has
\* parameters; constructing with no initial guess, or one of another length,
\* raises and yields no model.
C6_GuessLength ==
    /\ \A self \in {model, circuit_model} :
          self.py \in {"CustomCircuit", "Randles"}
          => /\ self.initial_guess # None
             /\ Len(self.initial_guess.v) = calculateCircuitLength(self.circuit.s)
    /\ (/\ lastCall.op = "construct"
        /\ lastCall.circuit # None
        /\ \/ lastCall.initial_guess = None
           \/ Len(lastCall.initial_guess.v)
                 # calculateCircuitLength(lastCall.circuit.s))
       => (lastCall.outcome = "raise" /\ model = None)

\* model_import returned a model whose initial guess is the fitted vector
C6_Witness ==
    /\ lastCall.op = "import" /\ lastCall.outcome = "ok"
    /\ lastCall.as_initial_guess
    /\ circuit_model.py = "CustomCircuit"
    /\ circuit_model.initial_guess.v = ExportedModel.parameters_.v

\* a constructor refused an initial guess of another length
C6_WitnessRefused ==
    /\ lastCall.op = "construct" /\ lastCall.outcome = "raise"
    /\ lastCall.circuit # None /\ lastCall.initial_guess # None
    /\ lastCall.initial_guess.ty = "float"

\* what model_import's docstring says of the object it returns
ImportedAsDocumented ==
    IF lastCall.as_initial_guess
    THEN /\ circuit_model.parameters_ = None
         /\ circuit_model.conf_ = None
         /\ circuit_model.initial_guess.v = ExportedModel.parameters_.v
         /\ predict_params(circuit_model, FALSE).v = ExportedModel.parameters_.v
    ELSE /\ circuit_model.initial_guess.v = ExportedModel.initial_guess.v
         /\ circuit_model.parameters_.v = ExportedModel.parameters_.v
         /\ predict_params(circuit_model, FALSE).v = ExportedModel.parameters_.v

\* C10: model_import of an exported model returns, with
\* as_initial_guess=True, an unfitted model whose initial guess is the
\* exported fitted vector, and with as_initial_guess=False a fitted model
\* with the exported initial guess and fitted parameters.
C10_ImportReturnsModel ==
    (lastCall.op = "import" /\ lastCall.json_data.py = "json")
    => (lastCall.outcome = "ok" /\ ImportedAsDocumented)

\* C10, for the calls of model_import that return: the object is as documented
C10_WhenReturned ==
    (lastCall.op = "import" /\ lastCall.outcome = "ok") => ImportedAsDocumented

----------------------------------------------------------------------------
(* Claims about get_param_names (SpecNames) *)

\* C9: for every valid circuit expression, get_param_names returns exactly the
\* element name tokens of the expression, left to right and unaltered, and as
\* many names as the circuit has parameters (calculateCircuitLength).
C9_ParamNames ==
    LET circuit == Render(tree)
    IN  /\ get_param_names(circuit) = Leaves(tree)
        /\ Len(get_param_names(circuit)) = calculateCircuitLength(circuit)

\* a parallel group nested in a parallel group, holding a '/'-joined element
C9_Witness ==
    /\ tree.t = "parallel"
    /\ tree.ch[1].t = "parallel"
    /\ \E i \in 1..Len(tree.ch[1].ch) :
          tree.ch[1].ch[i].t = "element" /\ Arity(tree.ch[1].ch[i].k) = 2

====
